---------------------------- MODULE Spec2Model ----------------------------
(***************************************************************************)
(* VocabMeld content script (src/js/services/processing-service.js,        *)
(* lines 246-1099): segmentation of the page, the word cache and the       *)
(* resolver (translateText), the replacement engine (applyReplacements,    *)
(* restoreAll) and the orchestrator (processPage) with its triggers.       *)
(*                                                                         *)
(* Texts are sequences of one-character strings, so that the regular       *)
(* expressions, indexOf, slice and toLowerCase of the source are computed  *)
(* character by character.  One step of the model is one macrotask of the  *)
(* page's event loop: a handler runs, with every microtask it queues,      *)
(* until each of its branches is suspended on a provider call or is done.  *)
(*                                                                         *)
(* Not modelled: the tooltip, toast and selection popup, pronunciation,    *)
(* the statistics counters (updateStats), the phonetic field (carried      *)
(* through unchanged by the source) and language detection (every text of  *)
(* the model is Latin-script English, so the sourceLang:targetLang suffix  *)
(* of a cache key is the same for every key and is left out).             *)
(***************************************************************************)
EXTENDS Integers, Sequences, FiniteSets, TLC

(***************************************************************************)
(* Characters and strings                                                  *)
(*                                                                         *)
(* A value that is used more than once is handed to an operator as an      *)
(* argument, which is worked out once, rather than named in a LET.         *)
(***************************************************************************)
LowerAlpha == <<"a","b","c","d","e","f","g","h","i","j","k","l","m","n","o","p","q","r","s","t","u","v","w","x","y","z">>

UpperAlpha == <<"A","B","C","D","E","F","G","H","I","J","K","L","M","N","O","P","Q","R","S","T","U","V","W","X","Y","Z">>

Range(s) == { s[i] : i \in 1..Len(s) }

LowerLetters == Range(LowerAlpha)

UpperLetters == Range(UpperAlpha)

AlphaIndex(alpha, ch) == CHOOSE i \in 1..Len(alpha) : alpha[i] = ch

\* [a-zA-Z]
IsLetter(ch) == ch \in LowerLetters \/ ch \in UpperLetters

\* \w of a JavaScript regular expression: [A-Za-z0-9_]
IsWordChar(ch) == IsLetter(ch) \/ ch \in {"0","1","2","3","4","5","6","7","8","9","_"}

\* \s of a JavaScript regular expression (the whitespace the texts can hold)
IsSpace(ch) == ch \in {" ", "\t", "\n", "\r"}

\* String.prototype.toLowerCase, one character
LowerChar(ch) == IF ch \in UpperLetters THEN LowerAlpha[AlphaIndex(UpperAlpha, ch)] ELSE ch

\* a sequence given by a rule, with its elements worked out once
Tup(f) == f \o <<>>

\* the least element of a finite set of integers
MinOf(K) == CHOOSE i \in K : \A j \in K : i <= j

\* Array.prototype.map
Map(s, f(_)) == Tup([i \in 1..Len(s) |-> f(s[i])])

\* String.prototype.toLowerCase
toLowerCase(s) == Map(s, LowerChar)

\* String.prototype.charCodeAt for the characters of the model's texts
charCode(ch) ==
    IF ch \in LowerLetters THEN 96 + AlphaIndex(LowerAlpha, ch)
    ELSE IF ch \in UpperLetters THEN 64 + AlphaIndex(UpperAlpha, ch)
    ELSE IF ch = " " THEN 32
    ELSE IF ch = "." THEN 46
    ELSE IF ch = "," THEN 44
    ELSE IF ch = ">" THEN 62
    ELSE IF ch = "(" THEN 40
    ELSE IF ch = ")" THEN 41
    ELSE 63

\* String.prototype.slice(from, to) with 0 <= from, 0-based, to exclusive
slice(s, from, to) ==
    IF from >= to \/ from >= Len(s) THEN <<>>
    ELSE SubSeq(s, from + 1, IF to > Len(s) THEN Len(s) ELSE to)

\* String.prototype.trim: from the first to the last character that is not
\* whitespace
trim(s) ==
    IF \A i \in 1..Len(s) : IsSpace(s[i]) THEN <<>>
    ELSE SubSeq(s,
                CHOOSE i \in 1..Len(s) : ~IsSpace(s[i]) /\ \A j \in 1..(i - 1) : IsSpace(s[j]),
                CHOOSE i \in 1..Len(s) : ~IsSpace(s[i]) /\ \A j \in (i + 1)..Len(s) : IsSpace(s[j]))

\* whether pat occurs in s at 0-based index i
OccursAt(s, pat, i) ==
    /\ i >= 0
    /\ i + Len(pat) <= Len(s)
    /\ \A k \in 1..Len(pat) : s[i + k] = pat[k]

\* String.prototype.indexOf: the first 0-based index of pat in s, or -1
indexOf(s, pat) ==
    IF \E i \in 0..(Len(s) - Len(pat)) : OccursAt(s, pat, i)
    THEN MinOf({ i \in 0..(Len(s) - Len(pat)) : OccursAt(s, pat, i) })
    ELSE -1

\* the elements of K, a subset of 1..n, in ascending order
Ascending(K, n) == SelectSeq(Tup([i \in 1..n |-> i]), LAMBDA i : i \in K)

\* the elements of s at the indices K, in order (Array.prototype.filter)
Pick(s, K) == Map(Ascending(K, Len(s)), LAMBDA i : s[i])

\* text.replace(/\s+/g, ' '): every run of whitespace becomes one space
collapseSpaces(s) ==
    Pick(Tup([i \in 1..Len(s) |-> IF IsSpace(s[i]) THEN " " ELSE s[i]]),
         { i \in 1..Len(s) : ~(IsSpace(s[i]) /\ i > 1 /\ IsSpace(s[i - 1])) })

\* Array.prototype.join(separator) of a sequence of strings
RECURSIVE join(_, _)
join(ts, separator) ==
    IF ts = <<>> THEN <<>>
    ELSE IF Len(ts) = 1 THEN ts[1]
    ELSE ts[1] \o separator \o join(Tail(ts), separator)

(***************************************************************************)
(* Tokenizer and fingerprint utilities                                     *)
(***************************************************************************)
CEFR_LEVELS == <<"A1", "A2", "B1", "B2", "C1", "C2">>

\* Array.prototype.indexOf on CEFR_LEVELS: 0-based, -1 when absent
CefrIndex(level) ==
    IF \E i \in 1..Len(CEFR_LEVELS) : CEFR_LEVELS[i] = level
    THEN (CHOOSE i \in 1..Len(CEFR_LEVELS) : CEFR_LEVELS[i] = level) - 1
    ELSE -1

\* a mutant of isDifficultyCompatible: the comparison turned round
isDifficultyCompatible_reversed(wordDifficulty, userDifficulty) ==
    CefrIndex(wordDifficulty) <= CefrIndex(userDifficulty)

isDifficultyCompatible(wordDifficulty, userDifficulty) ==
    LET wordIdx == CefrIndex(wordDifficulty)
        userIdx == CefrIndex(userDifficulty)
    IN  wordIdx >= userIdx

\* difficulty || 'B1': a missing difficulty is the empty string
OrB1(difficulty) == IF difficulty = "" THEN "B1" ELSE difficulty

\* one round of generateFingerprint's loop, hash = ((hash << 5) - hash) + char
\* cut to 32 bits by hash & hash; the 32 bits are kept as two 16-bit halves,
\* the low half of hash * 31 + char carrying into the high half
HashStep(h, code) ==
    << (h[1] * 31 + ((h[2] * 31 + code) \div 65536)) % 65536, (h[2] * 31 + code) % 65536 >>

\* the loop of generateFingerprint over str[lo..hi], entered with hash h
RECURSIVE HashRange(_, _, _, _)
RECURSIVE HashOn(_, _, _, _)
HashRange(str, lo, hi, h) ==
    IF lo > hi THEN h
    ELSE IF lo = hi THEN HashStep(h, charCode(str[lo]))
    ELSE HashOn(str, ((lo + hi) \div 2) + 1, hi, HashRange(str, lo, (lo + hi) \div 2, h))

\* the loop goes on over str[lo..hi] with the hash of what came before, a
\* pair of 16-bit halves (the test has it worked out before the loop goes on)
HashOn(str, lo, hi, before) ==
    IF before[1] \in 0..65535 /\ before[2] \in 0..65535
    THEN HashRange(str, lo, hi, before)
    ELSE <<0, 0>>

\* generateFingerprint: the 32-bit hash of the first 100 characters, trimmed,
\* followed by the path (toString(36) is one-to-one and is left out)
HashAll(str) == HashRange(str, 1, Len(str), <<0, 0>>)

generateFingerprint(text, path) == HashAll(trim(slice(text, 0, 100)) \o path)

\* \b at the 0-based position p of s: exactly one side is a word character
WordBoundary(s, p) ==
    (p >= 1 /\ IsWordChar(s[p])) # (p < Len(s) /\ IsWordChar(s[p + 1]))

\* the end (1-based, inclusive) of the run of letters that starts at i
LetterRunEnd(s, i) ==
    CHOOSE j \in i..Len(s) :
        /\ \A k \in i..j : IsLetter(s[k])
        /\ j = Len(s) \/ ~IsLetter(s[j + 1])

\* text.match(/\b[a-zA-Z]{3,}\b/g) || []: the runs of three letters or more
\* that have a word boundary on both sides
matchWords(s) ==
    Map(Ascending({ i \in 1..Len(s) :
                      /\ IsLetter(s[i])
                      /\ WordBoundary(s, i - 1)
                      /\ LetterRunEnd(s, i) >= i + 2
                      /\ WordBoundary(s, LetterRunEnd(s, i)) }, Len(s)),
        LAMBDA i : SubSeq(s, i, LetterRunEnd(s, i)))

stopWords ==
    {
      <<"t","h","e">>, <<"a">>, <<"a","n">>, <<"i","s">>,
      <<"a","r","e">>, <<"w","a","s">>, <<"w","e","r","e">>, <<"b","e">>,
      <<"b","e","e","n">>, <<"b","e","i","n","g">>, <<"h","a","v","e">>, <<"h","a","s">>,
      <<"h","a","d">>, <<"d","o">>, <<"d","o","e","s">>, <<"d","i","d">>,
      <<"w","i","l","l">>, <<"w","o","u","l","d">>, <<"c","o","u","l","d">>, <<"s","h","o","u","l","d">>,
      <<"m","a","y">>, <<"m","i","g","h","t">>, <<"m","u","s","t">>, <<"s","h","a","l","l">>,
      <<"c","a","n">>, <<"n","e","e","d">>, <<"d","a","r","e">>, <<"o","u","g","h","t">>,
      <<"u","s","e","d">>, <<"t","o">>, <<"o","f">>, <<"i","n">>,
      <<"f","o","r">>, <<"o","n">>, <<"w","i","t","h">>, <<"a","t">>,
      <<"b","y">>, <<"f","r","o","m">>, <<"a","s">>, <<"i","n","t","o">>,
      <<"t","h","r","o","u","g","h">>, <<"d","u","r","i","n","g">>, <<"b","e","f","o","r","e">>, <<"a","f","t","e","r">>,
      <<"a","b","o","v","e">>, <<"b","e","l","o","w">>, <<"b","e","t","w","e","e","n">>, <<"u","n","d","e","r">>,
      <<"a","g","a","i","n">>, <<"f","u","r","t","h","e","r">>, <<"t","h","e","n">>, <<"o","n","c","e">>,
      <<"h","e","r","e">>, <<"t","h","e","r","e">>, <<"w","h","e","n">>, <<"w","h","e","r","e">>,
      <<"w","h","y">>, <<"h","o","w">>, <<"a","l","l">>, <<"e","a","c","h">>,
      <<"f","e","w">>, <<"m","o","r","e">>, <<"m","o","s","t">>, <<"o","t","h","e","r">>,
      <<"s","o","m","e">>, <<"s","u","c","h">>, <<"n","o">>, <<"n","o","r">>,
      <<"n","o","t">>, <<"o","n","l","y">>, <<"o","w","n">>, <<"s","a","m","e">>,
      <<"s","o">>, <<"t","h","a","n">>, <<"t","o","o">>, <<"v","e","r","y">>,
      <<"j","u","s","t">>, <<"a","n","d">>, <<"b","u","t">>, <<"i","f">>,
      <<"o","r">>, <<"b","e","c","a","u","s","e">>, <<"u","n","t","i","l">>, <<"w","h","i","l","e">>,
      <<"t","h","i","s">>, <<"t","h","a","t">>, <<"t","h","e","s","e">>, <<"t","h","o","s","e">>,
      <<"w","h","a","t">>, <<"w","h","i","c","h">>, <<"w","h","o">>, <<"w","h","o","m">>,
      <<"i">>, <<"y","o","u">>, <<"h","e">>, <<"s","h","e">>,
      <<"i","t">>, <<"w","e">>, <<"t","h","e","y">>, <<"m","e">>,
      <<"h","i","m">>, <<"h","e","r">>, <<"u","s">>, <<"t","h","e","m">>,
      <<"m","y">>, <<"y","o","u","r">>, <<"h","i","s">>, <<"i","t","s">>,
      <<"o","u","r">>, <<"t","h","e","i","r">>
    }

\* [...new Set(ws)]: duplicates dropped, first occurrences kept in order
dedupe(ws) == Pick(ws, { i \in 1..Len(ws) : \A j \in 1..(i - 1) : ws[j] # ws[i] })

\* the candidate words of a text: translateText's allWords (the texts of the
\* model hold no CJK run, so chineseWords is empty)
allWordsOf(text) ==
    dedupe(SelectSeq(matchWords(text), LAMBDA w : toLowerCase(w) \notin stopWords))

\* where \bword\b matches in s, letter case aside, low being s in lower case
wordHits(s, low, word) ==
    { p \in 0..(Len(s) - Len(word)) :
        /\ Len(word) > 0
        /\ OccursAt(low, word, p)
        /\ WordBoundary(s, p)
        /\ WordBoundary(s, p + Len(word)) }

\* s without the n characters that follow each of the 0-based indices hits
cutOut(s, hits, n) ==
    Pick(s, { i \in 1..Len(s) : ~\E p \in hits : p < i /\ i <= p + n })

\* text.replace(new RegExp(`\\b${word}\\b`, 'gi'), '') for a word made of
\* word characters: two matches of such a word cannot overlap, so every
\* match is removed
stripWord(s, word) == cutOut(s, wordHits(s, toLowerCase(s), word), Len(word))

\* new RegExp(`\\b${word}\\b`) throws a SyntaxError on an unclosed group
RegExpThrows(word) ==
    Cardinality({ i \in 1..Len(word) : word[i] = "(" })
        # Cardinality({ i \in 1..Len(word) : word[i] = ")" })

(***************************************************************************)
(* The page: NumContainers paragraphs, each starting as one text leaf      *)
(***************************************************************************)
NumContainers == 5

Containers == 1..NumContainers

DocTexts ==
    << <<"T","h","e"," ","e","n","i","g","m","a","t","i","c"," ","t","r","a","v","e","l","e","r"," ","w","a","n","d","e","r","e","d"," ","t","h","r","o","u","g","h"," ","a","n","c","i","e","n","t"," ","r","u","i","n","s",".">>,
       <<"A","n","c","i","e","n","t"," ","s","c","h","o","l","a","r","s"," ","c","o","n","c","a","t","e","n","a","t","e"," ","t","e","x","t","s"," ","a","n","d"," ","s","c","a","t","t","e","r"," ","n","o","t","e","s"," ","w","i","d","e","l","y",".">>,
       <<"C","u","r","i","o","u","s"," ","m","i","n","d","s"," ","p","o","n","d","e","r"," ","t","h","e"," ","m","y","s","t","e","r","i","e","s"," ","o","f"," ","c","i","v","i","l","i","z","a","t","i","o","n"," ","d","a","i","l","y",".">>,
       <<"A","n","c","i","e","n","t"," ","r","u","i","n","s"," ","a","t","t","r","a","c","t"," ","e","v","e","r","y"," ","c","u","r","i","o","u","s"," ","t","r","a","v","e","l","e","r"," ","i","n"," ","s","p","r","i","n","g",".">>,
       <<"T","o","o"," ","s","h","o","r","t",".">> >>

ContainerText(c) == DocTexts[((c - 1) % Len(DocTexts)) + 1]

\* getElementPath: the tag names from below body down to the element
getElementPath(c) == IF c <= Len(DocTexts) THEN <<"p">> ELSE <<"d","i","v",">","p">>

\* a node of a container: a text leaf, or an annotation unit (the wrapper
\* span of createReplacementElement with its data-* attributes)
TextNode(t) ==
    [type |-> "text", data |-> t, original |-> <<>>, translation |-> <<>>, difficulty |-> ""]

createReplacementElement(original, translation, difficulty) ==
    [type |-> "span", data |-> <<>>, original |-> original,
     translation |-> translation, difficulty |-> OrB1(difficulty)]

InitialDom == [c \in Containers |-> [nodes |-> <<TextNode(ContainerText(c))>>, processed |-> FALSE]]

\* the text leaves of a node as a tree walker meets them: the leaf itself,
\* or the two leaves inside a wrapper, "translation" and "(original)"
LeafTexts(n) ==
    IF n.type = "text" THEN <<n.data>>
    ELSE <<n.translation, <<"(">> \o n.original \o <<")">> >>

\* isCodeText: of its patterns only the leading keyword can match a text of
\* letters, blanks, full stops and commas
\* /^(const|let|...)\s/.test(t)
startsWithKeyword(t) ==
    \E kw \in { <<"c","o","n","s","t">>, <<"l","e","t">>, <<"v","a","r">>,
                <<"f","u","n","c","t","i","o","n">>, <<"c","l","a","s","s">>,
                <<"i","m","p","o","r","t">>, <<"e","x","p","o","r","t">>,
                <<"r","e","t","u","r","n">>, <<"i","f">>, <<"e","l","s","e">>,
                <<"f","o","r">>, <<"w","h","i","l","e">> } :
        /\ Len(t) > Len(kw)
        /\ SubSeq(t, 1, Len(kw)) = kw
        /\ IsSpace(t[Len(kw) + 1])

isCodeText(text) == startsWithKeyword(trim(text))

\* shouldSkipNode for a container of the page: of its tests only the
\* data-vocabmeld-processed attribute changes while the page is processed
shouldSkipNode(d) == d.processed

\* findTextContainers: the containers not skipped that have a direct text
\* child of more than 10 characters
hasDirectText(d) ==
    \E i \in 1..Len(d.nodes) : d.nodes[i].type = "text" /\ Len(trim(d.nodes[i].data)) > 10

\* the concatenation of a sequence of sequences
RECURSIVE Flatten(_)
Flatten(ss) == IF ss = <<>> THEN <<>> ELSE Head(ss) \o Flatten(Tail(ss))

\* getTextContent: the text leaves that the acceptNode filter lets through,
\* joined by blanks, whitespace collapsed, trimmed
getTextContent(d) ==
    trim(collapseSpaces(join(
        SelectSeq(Flatten(Map(d.nodes, LeafTexts)),
                  LAMBDA leaf : Len(trim(leaf)) > 0 /\ ~isCodeText(leaf)),
        <<" ">>)))

(***************************************************************************)
(* Segmenter                                                               *)
(***************************************************************************)
\* what getPageSegments computes for a container whose text content is text
segmentFor(c, text) ==
    [element |-> c, text |-> slice(text, 0, 2000), full |-> Len(text),
     code |-> isCodeText(text),
     fingerprint |-> generateFingerprint(text, getElementPath(c))]

\* getPageSegments: view is the set of containers inside the viewport band
\* (every container when viewportOnly is false); a segment is kept when it
\* has 50 characters or more, is no code and has not been processed
getPageSegments(dom, fingerprints, view) ==
    SelectSeq(Map(Ascending({ c \in Containers \cap view :
                                ~shouldSkipNode(dom[c]) /\ hasDirectText(dom[c]) },
                            NumContainers),
                  LAMBDA c : segmentFor(c, getTextContent(dom[c]))),
              LAMBDA seg : /\ seg.full >= 50
                           /\ ~seg.code
                           /\ seg.fingerprint \notin fingerprints)

(***************************************************************************)
(* Word cache: a Map, kept as the sequence of its entries in iteration     *)
(* order.  An entry with n > 1 stands for n entries in a row whose keys    *)
(* are words that occur in no text and no provider reply of the model.     *)
(***************************************************************************)
CACHE_MAX_SIZE == 2000

FillerKey == <<"*">>

CacheEntry(key, translation, difficulty) ==
    [key |-> key, translation |-> translation, difficulty |-> difficulty, n |-> 1]

\* Map.prototype.size
RECURSIVE cacheSize(_)
cacheSize(cache) == IF cache = <<>> THEN 0 ELSE Head(cache).n + cacheSize(Tail(cache))

\* Map.prototype.has
cacheHas(cache, key) == \E i \in 1..Len(cache) : cache[i].key = key /\ key # FillerKey

\* Map.prototype.get of a key the map has
cacheGet(cache, key) == cache[CHOOSE i \in 1..Len(cache) : cache[i].key = key]

\* a mutant of cacheSet: a key written again moves to the end of the order
cacheSet_moveToEnd(cache, e) ==
    Pick(cache, { i \in 1..Len(cache) : cache[i].key # e.key }) \o <<e>>

\* Map.prototype.set: a key already present keeps its place in the order
cacheSet(cache, e) ==
    IF cacheHas(cache, e.key)
    THEN Tup([i \in 1..Len(cache) |-> IF cache[i].key = e.key THEN e ELSE cache[i]])
    ELSE Append(cache, e)

\* wordCache.delete(wordCache.keys().next().value)
cacheDeleteFirst(cache) ==
    IF cache = <<>> THEN cache
    ELSE IF Head(cache).n > 1
         THEN <<[Head(cache) EXCEPT !.n = @ - 1]>> \o Tail(cache)
         ELSE Tail(cache)

\* a mutant of cacheEvict: the size test is off by one
cacheEvict_offByOne(cache) ==
    IF cacheSize(cache) > CACHE_MAX_SIZE + 1 THEN cacheDeleteFirst(cache) ELSE cache

\* the eviction step that follows each wordCache.set of translateText
cacheEvict(cache) ==
    IF cacheSize(cache) > CACHE_MAX_SIZE THEN cacheDeleteFirst(cache) ELSE cache

\* translateText's loop over allResults: every item is written to the cache
RECURSIVE cacheMerge(_, _)
cacheMerge(cache, items) ==
    IF items = <<>> THEN cache
    ELSE LET item == Head(items)
             e    == CacheEntry(toLowerCase(item.original), item.translation,
                                OrB1(item.difficulty))
         IN  cacheMerge(cacheEvict(cacheSet(cache, e)), Tail(items))

\* loadWordCache: every persisted record is written to the (empty) map
RECURSIVE loadWordCache(_, _)
loadWordCache(cache, persisted) ==
    IF persisted = <<>> THEN cache
    ELSE loadWordCache(cacheSet(cache, Head(persisted)), Tail(persisted))

\* the keys of the cache in iteration order
cacheKeys(cache) == Map(cache, LAMBDA e : [key |-> e.key, n |-> e.n])

(***************************************************************************)
(* Resolver: translateText                                                 *)
(***************************************************************************)
\* INTENSITY_CONFIG[config.intensity]?.maxPerParagraph || 8
maxReplacementsOf(intensity) ==
    IF intensity = "low" THEN 4
    ELSE IF intensity = "medium" THEN 8
    ELSE IF intensity = "high" THEN 14
    ELSE 8

Min(a, b) == IF a < b THEN a ELSE b

\* the end of the run of characters other than . ! ? that starts at i
SentenceEnd(text, i) ==
    CHOOSE j \in i..Len(text) :
        /\ \A k \in i..j : text[k] \notin {".", "!", "?"}
        /\ j = Len(text) \/ text[j + 1] \in {".", "!", "?"}

\* text.split(/[.!?]+/).filter(s => s.trim().length > 0)
splitSentences(text) ==
    SelectSeq(Map(Ascending({ i \in 1..Len(text) :
                                /\ text[i] \notin {".", "!", "?"}
                                /\ i = 1 \/ text[i - 1] \in {".", "!", "?"} },
                            Len(text)),
                  LAMBDA i : SubSeq(text, i, SentenceEnd(text, i))),
              LAMBDA sentence : Len(trim(sentence)) > 0)

\* relevantSentences.join('. ').trim() + (relevantSentences.length > 0 ? '.' : '')
joinSentences(relevant) ==
    trim(join(relevant, <<".", " ">>)) \o (IF Len(relevant) > 0 THEN <<".">> ELSE <<>>)

\* reconstructTextWithWords: the sentences one of whose words is a target
\* word, letter case aside
reconstructTextWithWords(text, targetWords) ==
    joinSentences(SelectSeq(splitSentences(text),
                            LAMBDA sentence :
                                \E w \in Range(matchWords(sentence)) :
                                    toLowerCase(w) \in Range(Map(targetWords, toLowerCase))))

\* cs.map(c => ({ original: c.word, ..., position: idx, fromCache: true })),
\* idx being where the word first is in the text, letter case aside
candidatesOf(text, cs) ==
    Map(cs, LAMBDA c :
                [original |-> c.word, translation |-> c.translation,
                 difficulty |-> c.difficulty,
                 position |-> indexOf(toLowerCase(text), toLowerCase(c.word)),
                 fromCache |-> TRUE])

\* the words of allWords found in the cache, each with its entry:
\* { word, ...wordCache.get(key) }
cachedOf(allWords, cache) ==
    Map(SelectSeq(allWords, LAMBDA w : cacheHas(cache, toLowerCase(w))),
        LAMBDA w : [word |-> w,
                    translation |-> cacheGet(cache, toLowerCase(w)).translation,
                    difficulty |-> cacheGet(cache, toLowerCase(w)).difficulty])

\* the words of allWords that the cache does not have
uncachedOf(allWords, cache) == SelectSeq(allWords, LAMBDA w : ~cacheHas(cache, toLowerCase(w)))

\* how translateText goes on: it has thrown, returned value, or waits for
\* the provider with the cached words and the maximum of its start
Outcome(kind, value, cached, max) == [kind |-> kind, value |-> value, cached |-> cached, max |-> max]

\* a mutant of decideFromCache: the length of the reduced text is not tested
decideFromCache_anyLength(filteredText, maxReplacements, cached, uncached, fromCache) ==
    IF Len(fromCache) > 0 \/ Len(uncached) = 0
    THEN Outcome("return", slice(fromCache, 0, Min(Len(fromCache), maxReplacements)),
                 cached, maxReplacements)
    ELSE Outcome("fetch", <<>>, cached, maxReplacements)

\* a mutant of decideFromCache: the cache is used at once only when it holds
\* three of the text's words
decideFromCache_needsThree(filteredText, maxReplacements, cached, uncached, fromCache) ==
    IF Len(uncached) = 0 \/ Len(fromCache) >= Min(3, maxReplacements)
    THEN Outcome("return", slice(fromCache, 0, Min(Len(fromCache), maxReplacements)),
                 cached, maxReplacements)
    ELSE IF Len(trim(filteredText)) < 50
    THEN Outcome("return", slice(fromCache, 0, maxReplacements), cached, maxReplacements)
    ELSE Outcome("fetch", <<>>, cached, maxReplacements)

\* the returns of translateText before the provider is called; fromCache
\* are the candidates built from filteredCached, one for one, filteredText
\* is reconstructTextWithWords(text, uncached)
decideFromCache(filteredText, maxReplacements, cached, uncached, fromCache) ==
    IF Len(fromCache) > 0
    THEN Outcome("return", slice(fromCache, 0, Min(Len(fromCache), maxReplacements)),
                 cached, maxReplacements)
    ELSE IF Len(uncached) = 0 \/ Len(fromCache) >= Min(3, maxReplacements)
    THEN Outcome("return", slice(fromCache, 0, Min(Len(fromCache), maxReplacements)),
                 cached, maxReplacements)
    ELSE IF Len(trim(filteredText)) < 50
    THEN Outcome("return", slice(fromCache, 0, maxReplacements), cached, maxReplacements)
    ELSE Outcome("fetch", <<>>, cached, maxReplacements)

\* the case in which translateText is to call the provider: no cached word
\* of the text matches the level, a word of the text is not cached, and the
\* sentences that hold an uncached word make up 50 characters or more
providerDue(filteredText, level, cached, uncached) ==
    /\ \A i \in 1..Len(cached) : ~isDifficultyCompatible(OrB1(cached[i].difficulty), level)
    /\ Len(uncached) >= 1
    /\ Len(trim(filteredText)) >= 50

\* due notes, for the properties, whether the provider was to be called
lookUp(text, config, cached, uncached, filteredText) ==
    decideFromCache(filteredText, maxReplacementsOf(config.intensity), cached, uncached,
                    candidatesOf(text,
                        SelectSeq(cached, LAMBDA c :
                            isDifficultyCompatible(OrB1(c.difficulty), config.difficultyLevel))))
        @@ [due |-> providerDue(filteredText, config.difficultyLevel, cached, uncached)]

\* allWords is kept with the outcome for the second call of the properties
lookUpWords(text, config, cache, allWords) ==
    lookUp(text, config, cachedOf(allWords, cache), uncachedOf(allWords, cache),
           reconstructTextWithWords(text, uncachedOf(allWords, cache)))
        @@ [allWords |-> allWords]

\* translateText up to its first suspension: it throws when the provider is
\* not configured, returns candidates from the cache, or reaches fetch
translateTextStart(text, config, cache) ==
    IF ~config.apiKey THEN Outcome("throw", <<>>, <<>>, 0)
    ELSE lookUpWords(text, config, cache, allWordsOf(text))

\* { ...result, position: originalIndex >= 0 ? originalIndex : result.position }
corrected(r, originalIndex) ==
    [original |-> r.original, translation |-> r.translation, difficulty |-> r.difficulty,
     position |-> IF originalIndex >= 0 THEN originalIndex ELSE r.position,
     fromCache |-> FALSE]

correctedResults(text, filteredResults) ==
    Map(filteredResults,
        LAMBDA r : corrected(r, indexOf(toLowerCase(text), toLowerCase(r.original))))

\* the cached words of the call's start that the answer does not hold and
\* that match the level, as candidates
cachedResults(text, level, cached, resultWords) ==
    candidatesOf(text, SelectSeq(cached, LAMBDA c :
                      /\ toLowerCase(c.word) \notin resultWords
                      /\ isDifficultyCompatible(OrB1(c.difficulty), level)))

\* a mutant of mergedResults: the merged list is returned whole
mergedResults_uncut(text, level, cached, maxReplacements, results) ==
    cachedResults(text, level, cached,
                  { toLowerCase(results[i].original) : i \in 1..Len(results) })
        \o results

\* [...cachedResults, ...correctedResults].slice(0, maxReplacements)
mergedResults(text, level, cached, maxReplacements, results) ==
    slice(cachedResults(text, level, cached,
                        { toLowerCase(results[i].original) : i \in 1..Len(results) })
            \o results,
          0, maxReplacements)

\* translateText after the provider has answered with the array allResults:
\* the candidates it returns.  cached and maxReplacements are those of the
\* call's start, the difficulty level is read from the config of now
translateTextResult(text, level, cached, maxReplacements, allResults) ==
    mergedResults(text, level, cached, maxReplacements,
                  correctedResults(text,
                      SelectSeq(allResults, LAMBDA item :
                          isDifficultyCompatible(OrB1(item.difficulty), level))))

(***************************************************************************)
(* Replacement engine                                                      *)
(***************************************************************************)
\* the class [\s...] of applyReplacements' regular expression; its CJK
\* punctuation marks occur in no text of the model
IsBoundaryChar(ch) == IsSpace(ch) \/ ch \in {"\"", "'", "[", "]"}

regexStartsIn(text, low, lowOriginal) ==
    { p \in 0..(Len(text) - Len(lowOriginal)) :
        /\ OccursAt(low, lowOriginal, p)
        /\ p = 0 \/ IsBoundaryChar(text[p])
        /\ p + Len(lowOriginal) = Len(text) \/ IsBoundaryChar(text[p + Len(lowOriginal) + 1]) }

\* where the regular expression (^|[\s...])original([\s...]|$), flag i,
\* matches original in text: the 0-based starts of the matches
regexStarts(text, original) == regexStartsIn(text, toLowerCase(text), toLowerCase(original))

startFrom(hits, text, original) ==
    IF hits # {} THEN MinOf(hits) ELSE indexOf(text, original)

\* startIndex = match ? match.index + match[1].length : text.indexOf(original)
startIndexOf(text, original) == startFrom(regexStarts(text, original), text, original)

\* rangeContent.toLowerCase() === original.toLowerCase(), for a start found
rangeReads(text, original, startIndex) ==
    /\ startIndex # -1
    /\ toLowerCase(slice(text, startIndex, startIndex + Len(original))) = toLowerCase(original)

\* a mutant of sortByPositionDesc: the candidates are left in their order
sortByPositionDesc_asGiven(rs) == rs

\* [...replacements].sort((a, b) => (b.position || 0) - (a.position || 0)):
\* a stable sort, the highest position first
sortByPositionDesc(rs) ==
    LET rank(i) == 1 + Cardinality({ k \in 1..Len(rs) : rs[k].position > rs[i].position })
                     + Cardinality({ k \in 1..(i - 1) : rs[k].position = rs[i].position })
    IN  Tup([j \in 1..Len(rs) |-> rs[CHOOSE i \in 1..Len(rs) : rank(i) = j]])

\* range.deleteContents(); range.insertNode(wrapper) in the leaf at index t
\* of the container.  The leaf listed in textNodes keeps the text before the
\* wrapper; the text after it is a new leaf that textNodes does not list.
splitLeaf(st, r, t, text, startIndex) ==
    [nodes |-> SubSeq(st.nodes, 1, t - 1)
                 \o << TextNode(slice(text, 0, startIndex)),
                       createReplacementElement(r.original, r.translation, r.difficulty),
                       TextNode(slice(text, startIndex + Len(r.original), Len(text))) >>
                 \o SubSeq(st.nodes, t + 1, Len(st.nodes)),
     textNodes |-> Tup([j \in 1..Len(st.textNodes) |->
                       IF st.textNodes[j] > t THEN st.textNodes[j] + 2 ELSE st.textNodes[j]]),
     count |-> st.count + 1,
     done |-> Append(st.done, r),
     tried |-> st.tried,
     throws |-> st.throws,
     caught |-> st.caught]

\* a mutant of caught: the count goes up for the attempt that threw
caught_counted(st) == [st EXCEPT !.caught = @ + 1, !.count = @ + 1]

\* catch (e) { console.error(...) }: the inner loop goes on; caught counts
\* the errors caught
caught(st) == [st EXCEPT !.caught = @ + 1]

\* range.deleteContents() alone, when range.insertNode throws after it
deleteContents(st, t, text, startIndex, length) ==
    [st EXCEPT !.nodes[t] = TextNode(slice(text, 0, startIndex)
                                       \o slice(text, startIndex + length, Len(text)))]

\* the body of the inner loop for the candidate r and the leaf k of
\* textNodes.  throws names the leaves in which a statement of the try
\* block throws, for which candidate and at which statement: at "setEnd"
\* the range is invalid, at "insertNode" the content is already deleted.
RECURSIVE applyOneFrom(_, _, _)
inLeaf(st, r, k, t, text, startIndex) ==
    IF startIndex = -1 THEN applyOneFrom(st, r, k + 1)
    ELSE IF [leaf |-> k, original |-> r.original, at |-> "setEnd"] \in st.throws
    THEN applyOneFrom(caught(st), r, k + 1)
    ELSE IF ~rangeReads(text, r.original, startIndex) THEN applyOneFrom(st, r, k + 1)
    ELSE IF [leaf |-> k, original |-> r.original, at |-> "insertNode"] \in st.throws
    THEN applyOneFrom(caught(deleteContents(st, t, text, startIndex, Len(r.original))), r, k + 1)
    ELSE splitLeaf(st, r, t, text, startIndex)

\* for (const textNode of textNodes), from the leaf k on, until the break
applyOneFrom(st, r, k) ==
    IF k > Len(st.textNodes) THEN st
    ELSE inLeaf(st, r, k, st.textNodes[k], st.nodes[st.textNodes[k]].data,
                startIndexOf(st.nodes[st.textNodes[k]].data, r.original))

\* the inner loop of applyReplacements for one candidate; tried records the
\* positions of the candidates in the order the outer loop takes them
applyOne(st, r) == applyOneFrom([st EXCEPT !.tried = Append(st.tried, r.position)], r, 1)

RECURSIVE applyAll(_, _)
applyAll(st, rs) == IF rs = <<>> THEN st ELSE applyAll(applyOne(st, Head(rs)), Tail(rs))

\* a mutant of withMarker: the container is not marked as processed
withMarker_unmarked(d, res) ==
    [dom |-> [nodes |-> res.nodes, processed |-> d.processed],
     count |-> res.count, done |-> res.done, tried |-> res.tried, caught |-> res.caught]

\* if (count > 0) element.setAttribute('data-vocabmeld-processed', 'true')
withMarker(d, res) ==
    [dom |-> [nodes |-> res.nodes, processed |-> d.processed \/ res.count > 0],
     count |-> res.count, done |-> res.done, tried |-> res.tried, caught |-> res.caught]

\* applyReplacements(element, replacements), on a document in which the
\* range operations named in throws throw: the container afterwards, the
\* count it returns and the candidates it put in.  A container that is
\* handed to applyReplacements holds no wrapper yet: a wrapper is only put
\* into a container of the running pass's segment list, once.
applyReplacementsWhere(d, replacements, throws) ==
    IF replacements = <<>>
    THEN [dom |-> d, count |-> 0, done |-> <<>>, tried |-> <<>>, caught |-> 0]
    ELSE withMarker(d,
            applyAll([nodes |-> d.nodes,
                      textNodes |-> Ascending({ i \in 1..Len(d.nodes) :
                                                  /\ d.nodes[i].type = "text"
                                                  /\ Len(trim(d.nodes[i].data)) > 0 },
                                              Len(d.nodes)),
                      count |-> 0, done |-> <<>>, tried |-> <<>>,
                      throws |-> throws, caught |-> 0],
                     sortByPositionDesc(replacements)))

\* applyReplacements on a document whose range operations do not throw
applyReplacements(d, replacements) == applyReplacementsWhere(d, replacements, {})

\* restoreOriginal: a wrapper becomes a text leaf holding its data-original
restoreOriginal(n) == IF n.type = "span" THEN TextNode(n.original) ELSE n

\* a mutant of restoreAllDom: the markers are left on the containers
restoreAllDom_markersKept(dom) ==
    [c \in Containers |->
        [nodes |-> Map(dom[c].nodes, restoreOriginal),
         processed |-> dom[c].processed]]

\* restoreAll on the document: every wrapper restored, every marker removed
restoreAllDom(dom) ==
    [c \in Containers |->
        [nodes |-> Map(dom[c].nodes, restoreOriginal),
         processed |-> FALSE]]

(***************************************************************************)
(* Provider: what a call to the translation service can answer             *)
(***************************************************************************)
W_ancient == <<"a","n","c","i","e","n","t">>

W_traveler == <<"t","r","a","v","e","l","e","r">>

W_wandered == <<"w","a","n","d","e","r","e","d">>

W_enigmatic == <<"e","n","i","g","m","a","t","i","c">>

W_zebra == <<"z","e","b","r","a">>

\* the answers of the provider: a failed call (network error or a response
\* that is not ok), or a response with its content.  Of the content the
\* model keeps what JSON.parse makes of it (json: an array, another value,
\* or invalid), what JSON.parse makes of its first [...] block (bracket:
\* none if there is no such block) and the items of the array found.  The
\* contents are: an array of items, an empty array with prose around it, a
\* value that is not an array, text with a malformed [...] block, text with
\* no block.  In the array a word of the text or a word that is not in it,
\* a word that the text holds only inside a longer word, a difficulty below
\* the user's level, a missing one ("") and one that is not a CEFR level
\* can all come back.
ProviderReplies ==
    { [ok |-> FALSE, json |-> "invalid", bracket |-> "none", items |-> <<>>],
      [ok |-> TRUE, json |-> "invalid", bracket |-> "array", items |-> <<>>],
      [ok |-> TRUE, json |-> "value", bracket |-> "none", items |-> <<>>],
      [ok |-> TRUE, json |-> "invalid", bracket |-> "invalid", items |-> <<>>],
      [ok |-> TRUE, json |-> "invalid", bracket |-> "none", items |-> <<>>],
      [ok |-> TRUE, json |-> "array", bracket |-> "array",
       items |-> Map(<< <<W_ancient, <<"G","U">>, "B2">>,
                        <<W_traveler, <<"L","U">>, "A1">>,
                        <<W_enigmatic, <<"M","I">>, "">>,
                        <<W_zebra, <<"B","A">>, "X">>,
                        <<<<"c","a","t">>, <<"M","A","O">>, "B1">>,
                        <<<<"r","u","i","n","s">>, <<"G","U">>, "C1">>,
                        <<<<"s","c","h","o","l","a","r","s">>, <<"S","H","I">>, "B2">> >>,
                     LAMBDA item : [original |-> item[1], translation |-> item[2],
                                    difficulty |-> item[3], position |-> 0])] }

\* what translateText has after the fetch: an error thrown (kind "error",
\* with its cause) or the array allResults (kind "items")
Fetched(kind, cause, items) == [kind |-> kind, cause |-> cause, items |-> items]

\* allResults = JSON.parse(content), with the [...] block as the fallback.
\* The JSON.parse of the block is caught when it is the one of the try and
\* content itself could be parsed, and then runs again in the catch, where
\* nothing catches it.  A value that is not an array and has no block stays
\* in allResults, and the loop over it throws.
allResultsOf(content) ==
    IF content.json = "array" THEN Fetched("items", "", content.items)
    ELSE IF content.bracket = "array" THEN Fetched("items", "", content.items)
    ELSE IF content.bracket = "invalid" THEN Fetched("error", "parse", <<>>)
    ELSE IF content.json = "value" THEN Fetched("error", "parse", <<>>)
    ELSE Fetched("items", "", <<>>)

\* await fetch, response.ok, response.json(), data.choices[0].message.content
fetched(response) ==
    IF ~response.ok THEN Fetched("error", "provider", <<>>) ELSE allResultsOf(response)

(***************************************************************************)
(* Orchestrator: processPage                                               *)
(***************************************************************************)
MAX_CONCURRENT == 3

\* what a processPage call returned, and whether the call was for the whole page
Result(kind, processed, errors, full) ==
    [kind |-> kind, processed |-> processed, errors |-> errors, full |-> full]

\* config.learnedWords.map(w => w.original.toLowerCase()) as a Set: the
\* lower-cased originals in order, duplicates dropped
whitelistWordsOf(learned) ==
    dedupe(Map(learned, LAMBDA w : toLowerCase(w.original)))

\* the text of a segment with every whitelist word taken out
RECURSIVE stripAll(_, _)
stripAll(text, words) ==
    IF words = <<>> THEN text ELSE stripAll(stripWord(text, Head(words)), Tail(words))

\* the pre-filter of processPage: the segments whose text, the whitelist
\* words taken out and trimmed, has 30 characters or more
validSegmentsOf(segments, whitelistWords) ==
    SelectSeq(Map(segments, LAMBDA seg :
                      [element |-> seg.element, fingerprint |-> seg.fingerprint,
                       filteredText |-> stripAll(seg.text, whitelistWords)]),
              LAMBDA seg : Len(trim(seg.filteredText)) >= 30)

\* processedFingerprints.add(segment.fingerprint), whatever the count
markSegment(fingerprints, fingerprint, count) == fingerprints \cup {fingerprint}

\* processSegment after applyReplacements has returned res; applied records
\* the call for the properties
segmentApplied(S, p, seg, res) ==
    [S |-> [S EXCEPT !.dom = [S.dom EXCEPT ![seg.element] = res.dom],
                     !.fingerprints = markSegment(S.fingerprints, seg.fingerprint, res.count),
                     !.applied = Append(S.applied,
                         [element |-> seg.element, fingerprint |-> seg.fingerprint,
                          count |-> res.count, tried |-> res.tried,
                          positions |-> Map(res.done, LAMBDA r : r.position),
                          originals |-> Range(Map(res.done, LAMBDA r : toLowerCase(r.original)))])],
     count |-> res.count, error |-> FALSE]

\* processSegment once translateText has returned the candidates:
\* replacements.filter(r => !whitelistWords.has(r.original.toLowerCase()))
processSegmentDone(S, p, seg, replacements) ==
    IF Len(replacements) > 0
    THEN segmentApplied(S, p, seg,
             applyReplacements(S.dom[seg.element],
                 SelectSeq(replacements, LAMBDA r :
                     toLowerCase(r.original) \notin Range(p.whitelistWords))))
    ELSE [S |-> S, count |-> 0, error |-> FALSE]

\* resolved records an end of translateText for the properties: the
\* candidates returned (none when it has thrown, path "rejected"), the path,
\* the level of now and what the caller notes of the call
withResolved(S, seg, value, path, note) ==
    [S EXCEPT !.resolved = Append(S.resolved,
                  [element |-> seg.element, value |-> value,
                   level |-> S.config.difficultyLevel, path |-> path] @@ note)]

Settled(count, error) ==
    [state |-> "settled", cached |-> <<>>, max |-> 0, intensity |-> "", level |-> "",
     count |-> count, error |-> error]

\* the segments of the batch whose translateText ended without a provider
\* call run on as microtasks, in the order of the batch; calls gathers what
\* became of each segment
RECURSIVE settleSync(_, _, _, _, _, _)
RECURSIVE settleNext(_, _, _, _, _, _)
settleSync(S, calls, p, batch, starts, k) ==
    IF k > Len(batch) THEN [S |-> S, calls |-> calls]
    ELSE IF starts[k].kind = "fetch"
    THEN settleSync(S, Append(calls, [state |-> "pending", cached |-> starts[k].cached,
                                      max |-> starts[k].max,
                                      intensity |-> S.config.intensity,
                                      level |-> S.config.difficultyLevel,
                                      due |-> starts[k].due,
                                      allWords |-> starts[k].allWords,
                                      count |-> 0, error |-> FALSE]),
                    p, batch, starts, k + 1)
    ELSE IF starts[k].kind = "throw"
    THEN settleSync(withResolved(S, batch[k], <<>>, "rejected",
                                 [intensity |-> S.config.intensity, cause |-> "config"]),
                    Append(calls, Settled(0, TRUE)), p, batch, starts, k + 1)
    ELSE settleNext(processSegmentDone(withResolved(S, batch[k], starts[k].value, "cache",
                                                    [intensity |-> S.config.intensity,
                                                     due |-> starts[k].due]),
                                       p, batch[k], starts[k].value),
                    calls, p, batch, starts, k)

settleNext(done, calls, p, batch, starts, k) ==
    settleSync(done.S, Append(calls, Settled(done.count, done.error)), p, batch, starts, k + 1)

\* a mutant of batchOf: every segment that is left goes into one batch
batchOf_all(segments, i) == slice(segments, i, Len(segments))

\* validSegments.slice(i, i + MAX_CONCURRENT)
batchOf(segments, i) == slice(segments, i, i + MAX_CONCURRENT)

\* batch.map(processSegment) up to the await of Promise.all
startBatch(S, p, batch) ==
    settleSync(S, <<>>, p, batch,
               Map(batch, LAMBDA seg : translateTextStart(seg.filteredText, S.config, S.cache)),
               1)

RECURSIVE SumCount(_)
SumCount(calls) == IF calls = <<>> THEN 0 ELSE Head(calls).count + SumCount(Tail(calls))

\* a mutant of AllSettled: the loop goes on when one call has settled
AllSettled_one(calls) == \E k \in 1..Len(calls) : calls[k].state = "settled"

AllSettled(calls) == \A k \in 1..Len(calls) : calls[k].state = "settled"

\* a mutant of nextBatch: the errors of the batch are not counted
nextBatch_errorsDropped(p, calls) ==
    [p EXCEPT !.i = p.i + MAX_CONCURRENT,
              !.calls = <<>>,
              !.processed = p.processed + SumCount(calls)]

\* for (const result of results) { processed += result.count; ... }; i += MAX_CONCURRENT
nextBatch(p, calls) ==
    [p EXCEPT !.i = p.i + MAX_CONCURRENT,
              !.calls = <<>>,
              !.processed = p.processed + SumCount(calls),
              !.errors = p.errors + Len(SelectSeq(calls, LAMBDA call : call.error))]

\* a mutant of clearBusy: the flag is left set when the pass ends
clearBusy_never(flag) == flag

\* finally { isProcessing = false }
clearBusy(flag) == FALSE

\* the loop of processPage over the batches, from batch p.i on, run until a
\* batch waits for the provider (the pass stays, alive) or no batch is left
\* (the pass returns its summary and clears the flag)
RECURSIVE runBatches(_, _)
RECURSIVE afterBatch(_, _)
runBatches(S, p) ==
    IF p.i >= Len(p.segments)
    THEN [S |-> [S EXCEPT !.isProcessing = clearBusy(S.isProcessing),
                          !.lastResult = Result("done", p.processed, p.errors, p.full)],
          alive |-> FALSE, p |-> p]
    ELSE afterBatch(p, startBatch(S, p, batchOf(p.segments, p.i)))

afterBatch(p, run) ==
    IF AllSettled(run.calls) THEN runBatches(run.S, nextBatch(p, run.calls))
    ELSE [S |-> run.S, alive |-> TRUE, p |-> [p EXCEPT !.calls = run.calls]]

\* a mutant of alreadyProcessing: the busy flag is not looked at
alreadyProcessing_never(flag) == FALSE

\* if (isProcessing) return { processed: 0, skipped: true }
alreadyProcessing(flag) == flag

\* the call is suspended on the provider, or has returned
suspended(run) == IF run.alive THEN [run.S EXCEPT !.passes = Append(run.S.passes, run.p)] ELSE run.S

\* processPage from isProcessing = true on
startPass(S, full, segments, whitelistWords) ==
    IF segments # <<>> /\ \E i \in 1..Len(whitelistWords) : RegExpThrows(whitelistWords[i])
    THEN \* new RegExp throws inside try: finally clears the flag, the promise rejects
         [S EXCEPT !.isProcessing = clearBusy(TRUE), !.lastResult = Result("threw", 0, 0, full)]
    ELSE suspended(runBatches([S EXCEPT !.isProcessing = TRUE,
                                        !.lastResult = Result("pending", 0, 0, full)],
                              [segments |-> validSegmentsOf(segments, whitelistWords),
                               whitelistWords |-> whitelistWords,
                               full |-> full, i |-> 0, calls |-> <<>>,
                               processed |-> 0, errors |-> 0]))

\* a mutant of skipped: the rejected call clears the busy flag
skipped_clearsFlag(S, full) ==
    [S EXCEPT !.isProcessing = FALSE, !.lastResult = Result("skipped", 0, 0, full)]

\* return { processed: 0, skipped: true }
skipped(S, full) == [S EXCEPT !.lastResult = Result("skipped", 0, 0, full)]

\* processPage(viewportOnly), with every microtask it queues.  view is the
\* set of containers in the viewport band, or every container.
processPage(S, view) ==
    IF alreadyProcessing(S.isProcessing)
    THEN skipped(S, view = Containers)
    ELSE IF ~S.config.enabled
    THEN [S EXCEPT !.lastResult = Result("disabled", 0, 0, view = Containers)]
    ELSE IF S.config.blacklisted
    THEN [S EXCEPT !.lastResult = Result("blacklisted", 0, 0, view = Containers)]
    ELSE startPass(S, view = Containers,
                   getPageSegments(S.dom, S.fingerprints, view),
                   whitelistWordsOf(S.learnedWords))

\* restoreAll has returned and left the state R: restores records the
\* document and the fingerprints it left, for the properties
restoreAllReturned(R) ==
    [R EXCEPT !.restores = Append(R.restores, [dom |-> R.dom, fingerprints |-> R.fingerprints])]

\* restoreAll
restoreAll(S) ==
    restoreAllReturned([S EXCEPT !.dom = restoreAllDom(S.dom), !.fingerprints = {}])

(***************************************************************************)
(* State                                                                   *)
(***************************************************************************)
\* bounds of the model
MaxEvents == 2

MaxLearnedWords == 1

\* how many responses that are not an array of items the provider gives
MaxBadResponses == 1

\* how many scroll events and mutation records the ProcessingService gets
MaxTriggers == 3

VARIABLES
    config,                 \* the in-memory copy of the settings (loadConfig)
    stor,                   \* chrome.storage.sync, the settings as stored
    changes,                \* storage change events not yet handled
    learnedWords,           \* config.learnedWords, the whitelist
    isProcessing,           \* the busy flag
    processedFingerprints,  \* fingerprints of the segments handled
    wordCache,              \* the Map of cached words, in iteration order
    persisted,              \* chrome.storage.local.vocabmeld_word_cache
    dom,                    \* the text containers of the document
    passes,                 \* the processPage calls suspended on the provider
    scrollTimer,            \* the timer of the debounced scroll handler
    startupTimer,           \* the one-second timer set by init
    lastResult,             \* what the processPage call of this step returned
    resolved,               \* what translateText returned in this step
    applied,                \* the applyReplacements calls of this step
    restores,               \* what the restoreAll calls of this step left
    nEvents,               \* events of the user so far
    nBad,                  \* responses without items so far
    service,               \* the ProcessingService object (the class of lines 14-232)
    apply,                 \* an applyReplacements call on its own: arguments and result
    restoredInFlight,      \* restoreAll ran while a pass was in flight, and none began since
    answers,               \* flips whenever a provider call settles
    fifo,                   \* history: a reference first-in first-out queue of the cache keys
    earned,                 \* history: fingerprints of segments with an applied replacement
    marked,                 \* history: containers whose resolver output was not empty
    passClean,              \* history: nothing but the pipeline acted since the pass began
    history                 \* history: replacement counts of the full passes in a row

vars == << config, stor, changes, learnedWords, isProcessing, processedFingerprints,
           wordCache, persisted, dom, passes, scrollTimer, startupTimer, lastResult,
           resolved, applied, restores, nEvents, nBad, service, apply, restoredInFlight, answers, fifo, earned, marked, passClean, history >>

\* the debounced triggers of the ProcessingService: the scroll listener and
\* the MutationObserver
Triggers == {"scroll", "mutation"}

\* the result of loadConfig over a fresh profile, but for the key and autoProcess
DefaultConfig(apiKey, autoProcess) ==
    [enabled |-> TRUE, autoProcess |-> autoProcess, apiKey |-> apiKey,
     difficultyLevel |-> "B1", intensity |-> "medium", blacklisted |-> FALSE]

\* the cache record of a profile in use: a full cache written by
\* saveWordCache whose oldest keys are words of the page
InitialPersisted ==
    << CacheEntry(W_wandered, <<"M","A","N">>, "B2"),
       CacheEntry(W_ancient, <<"G","U">>, "A1"),
       [key |-> FillerKey, translation |-> <<>>, difficulty |-> "B1",
        n |-> CACHE_MAX_SIZE - 2] >>

\* the profiles the page can be opened with: a fresh install (no key, no
\* automatic processing, nothing learned, nothing cached), and a profile in
\* use, with a key, automatic processing, the cache and one of the
\* whitelists: empty, a word of the page, a word out of which no regular
\* expression can be built
Profiles ==
    { [config |-> DefaultConfig(FALSE, FALSE), learnedWords |-> <<>>, persisted |-> <<>>] }
        \cup { [config |-> DefaultConfig(TRUE, TRUE), learnedWords |-> learned,
                persisted |-> InitialPersisted] :
                  learned \in { <<>>,
                                << [original |-> W_ancient, word |-> <<"G","U">>] >>,
                                << [original |-> <<"(","s","e","e">>,
                                    word |-> <<"K","A","N">>] >> } }

\* init(): loadConfig, loadWordCache, setupEventListeners, the start-up timer
Init ==
    /\ \E profile \in Profiles :
          /\ config = profile.config
          /\ learnedWords = profile.learnedWords
          /\ persisted = profile.persisted
    /\ stor = config
    /\ startupTimer = (config.autoProcess /\ config.enabled /\ config.apiKey)
    /\ changes = <<>>
    /\ isProcessing = FALSE
    /\ processedFingerprints = {}
    /\ wordCache = loadWordCache(<<>>, persisted)
    /\ dom = InitialDom
    /\ passes = <<>>
    /\ scrollTimer = FALSE
    /\ lastResult = Result("none", 0, 0, FALSE)
    /\ resolved = <<>>
    /\ applied = <<>>
    /\ restores = <<>>
    /\ nEvents = 0
    /\ nBad = 0
    /\ restoredInFlight = FALSE
    /\ service = [config |-> [autoProcess |-> config.autoProcess, enabled |-> config.enabled],
                  isProcessing |-> FALSE,
                  listening |-> [trigger \in Triggers |-> TRUE],
                  timeout |-> [trigger \in Triggers |-> 0],
                  hasNewContent |-> FALSE,
                  burst |-> [trigger \in Triggers |-> 0],
                  nTriggers |-> 0,
                  destroyed |-> FALSE]
    /\ apply = [element |-> [nodes |-> <<>>, processed |-> FALSE], replacements |-> <<>>,
                throws |-> {},
                result |-> applyReplacementsWhere([nodes |-> <<>>, processed |-> FALSE],
                                                  <<>>, {})]
    /\ answers = FALSE
    /\ fifo = cacheKeys(persisted)
    /\ earned = {}
    /\ marked = {}
    /\ passClean = FALSE
    /\ history = <<>>

\* the state the functions of the orchestrator work on, as a step finds it
Cur ==
    [config |-> config, learnedWords |-> learnedWords, isProcessing |-> isProcessing,
     fingerprints |-> processedFingerprints, cache |-> wordCache, dom |-> dom,
     passes |-> passes, lastResult |-> Result("none", 0, 0, FALSE), resolved |-> <<>>,
     applied |-> <<>>, restores |-> <<>>]

\* the history variables after a step that left the state S: restored tells
\* that the step ran restoreAll, outside that something other than the
\* pipeline acted, began that a processPage call of the step began a pass;
\* restoredInFlight tells that restoreAll ran while a pass was in flight
\* that went on, and that no pass has begun since;
\* history holds the replacement counts of the last two full passes in a row
History(S, restored, outside, began) ==
    /\ earned' = (IF restored THEN {} ELSE earned)
                    \cup { S.applied[i].fingerprint :
                             i \in { j \in 1..Len(S.applied) : S.applied[j].count > 0 } }
    /\ marked' = (IF restored THEN {} ELSE marked)
                    \cup { S.resolved[i].element :
                             i \in { j \in 1..Len(S.resolved) : S.resolved[j].value # <<>> } }
    /\ passClean' = (S.passes # <<>> /\ (began \/ (passClean /\ ~outside)))
    /\ restoredInFlight' = IF began THEN FALSE
                           ELSE IF restored THEN passes # <<>> /\ S.passes # <<>>
                           ELSE restoredInFlight
    /\ history' = IF /\ S.lastResult.kind = "done"
                     /\ S.lastResult.full
                     /\ began \/ (passClean /\ ~outside)
                  THEN IF outside THEN <<S.lastResult.processed>>
                       ELSE IF Len(history) < 2 THEN Append(history, S.lastResult.processed)
                       ELSE <<history[2], S.lastResult.processed>>
                  ELSE IF outside \/ (S.lastResult.kind = "done" /\ ~S.lastResult.full)
                  THEN <<>> ELSE history

\* the step leaves the state S
Commit(S) ==
    /\ isProcessing' = S.isProcessing
    /\ processedFingerprints' = S.fingerprints
    /\ wordCache' = S.cache
    /\ dom' = S.dom
    /\ passes' = S.passes
    /\ lastResult' = S.lastResult
    /\ resolved' = S.resolved
    /\ applied' = S.applied
    /\ restores' = S.restores
    /\ service' = service
    /\ apply' = apply

\* a step in which processPage may have been called
CallStep(S, restored, outside) ==
    /\ Commit(S)
    /\ History(S, restored, outside, S.lastResult.kind \in {"pending", "done"})
    /\ answers' = answers
    /\ nBad' = nBad

\* a step in which processPage was not called
Step(S, restored, outside) ==
    /\ Commit(S)
    /\ History(S, restored, outside, FALSE)
    /\ answers' = answers
    /\ nBad' = nBad

(***************************************************************************)
(* Actions: one macrotask of the event loop each                           *)
(***************************************************************************)
\* runtime.onMessage, action 'processPage'
MsgProcessPage ==
    /\ nEvents < MaxEvents
    /\ nEvents' = nEvents + 1
    /\ CallStep(processPage(Cur, Containers), FALSE, FALSE)
    /\ UNCHANGED << config, stor, changes, learnedWords, persisted, scrollTimer,
                    startupTimer, fifo >>

\* runtime.onMessage, action 'restorePage'
MsgRestorePage ==
    /\ nEvents < MaxEvents
    /\ nEvents' = nEvents + 1
    /\ Step(restoreAll(Cur), TRUE, TRUE)
    /\ UNCHANGED << config, stor, changes, learnedWords, persisted, scrollTimer,
                    startupTimer, fifo >>

\* the page is loaded again: the script starts over on the fresh document
\* with what the two storage areas hold (init: loadConfig, loadWordCache,
\* setupEventListeners, the timer of the automatic pass)
Reload ==
    /\ nEvents < MaxEvents
    /\ nEvents' = nEvents + 1
    /\ config' = stor
    /\ changes' = <<>>
    /\ startupTimer' = (stor.autoProcess /\ stor.enabled /\ stor.apiKey)
    /\ scrollTimer' = FALSE
    /\ fifo' = cacheKeys(persisted)
    /\ Step([Cur EXCEPT !.isProcessing = FALSE, !.fingerprints = {},
                        !.cache = loadWordCache(<<>>, persisted),
                        !.dom = InitialDom, !.passes = <<>>],
            TRUE, TRUE)
    /\ UNCHANGED << stor, learnedWords, persisted >>

\* a mutant of autoProcessOn: the enabled flag alone lets the trigger run
autoProcessOn_enabledOnly(conf) == conf.enabled

\* the test of the debounced callbacks: config.autoProcess && config.enabled
autoProcessOn(conf) == conf.autoProcess /\ conf.enabled

\* a scroll event: the debounced handler sets its timer anew
Scroll ==
    /\ nEvents < MaxEvents
    /\ nEvents' = nEvents + 1
    /\ scrollTimer' = TRUE
    /\ Step(Cur, FALSE, FALSE)
    /\ UNCHANGED << config, stor, changes, learnedWords, persisted, startupTimer, fifo >>

\* the debounce timer fires, 500 ms after the last scroll event
ScrollTimerFires(view) ==
    /\ scrollTimer
    /\ scrollTimer' = FALSE
    /\ IF autoProcessOn(config)
       THEN CallStep(processPage(Cur, view), FALSE, FALSE)
       ELSE Step(Cur, FALSE, FALSE)
    /\ UNCHANGED << config, stor, changes, learnedWords, persisted, startupTimer,
                    nEvents, fifo >>

\* the timer of init fires
StartupTimerFires ==
    /\ startupTimer
    /\ startupTimer' = FALSE
    /\ CallStep(processPage(Cur, Containers), FALSE, FALSE)
    /\ UNCHANGED << config, stor, changes, learnedWords, persisted, scrollTimer,
                    nEvents, fifo >>

\* the options page or the popup writes one setting to chrome.storage.sync
ChangeSetting(key, value, off) ==
    /\ nEvents < MaxEvents
    /\ stor[key] # value
    /\ stor' = [stor EXCEPT ![key] = value]
    /\ changes' = Append(changes, [key |-> key, off |-> off])
    /\ nEvents' = nEvents + 1
    /\ Step(Cur, FALSE, FALSE)
    /\ UNCHANGED << config, learnedWords, persisted, scrollTimer, startupTimer, fifo >>

\* the then-callback of storage.onChanged for the change ch, on the state S
\* that loadConfig left
onChanged(S, ch) ==
    IF ch.key = "enabled" /\ ch.off THEN restoreAll(S)
    ELSE IF ch.key \in {"difficultyLevel", "intensity"}
    THEN IF S.config.enabled THEN processPage(restoreAll(S), Containers) ELSE restoreAll(S)
    ELSE S

\* storage.onChanged of the area 'sync': loadConfig, then restore and
\* process again as the changed key asks
StorageChanged ==
    /\ changes # <<>>
    /\ CallStep(onChanged([Cur EXCEPT !.config = stor], Head(changes)),
                Head(changes).key \in {"difficultyLevel", "intensity"}
                    \/ (Head(changes).key = "enabled" /\ Head(changes).off),
                TRUE)
    /\ config' = stor
    /\ changes' = Tail(changes)
    /\ UNCHANGED << stor, learnedWords, persisted, scrollTimer, startupTimer, nEvents, fifo >>

\* addToWhitelist: the word is pushed unless an entry has its original or
\* its translation
addToWhitelist(learned, original, translation) ==
    IF \E i \in 1..Len(learned) :
           learned[i].original = original \/ learned[i].word = translation
    THEN learned
    ELSE Append(learned, [original |-> original, word |-> translation])

\* the contextmenu handler on a replaced word, the node i of the container
\* c: addToWhitelist, then restoreOriginal(target)
ContextMenuLearned(c, i) ==
    /\ nEvents < MaxEvents
    /\ nEvents' = nEvents + 1
    /\ i \in 1..Len(dom[c].nodes)
    /\ dom[c].nodes[i].type = "span"
    /\ Len(addToWhitelist(learnedWords, dom[c].nodes[i].original, dom[c].nodes[i].translation))
          <= MaxLearnedWords
    /\ learnedWords' = addToWhitelist(learnedWords, dom[c].nodes[i].original,
                                      dom[c].nodes[i].translation)
    /\ Step([Cur EXCEPT !.dom[c].nodes[i] = restoreOriginal(dom[c].nodes[i])], FALSE, TRUE)
    /\ UNCHANGED << config, stor, changes, persisted, scrollTimer, startupTimer, fifo >>

\* the reference queue: a key that is present keeps its place, a new key
\* goes to the end, and over the cap the key at the front leaves
fifoPush(q1) ==
    IF cacheSize(q1) <= CACHE_MAX_SIZE THEN q1
    ELSE IF Head(q1).n > 1 THEN <<[Head(q1) EXCEPT !.n = @ - 1]>> \o Tail(q1)
    ELSE Tail(q1)

fifoInsert(q, key) ==
    IF \E i \in 1..Len(q) : q[i].key = key THEN q
    ELSE fifoPush(Append(q, [key |-> key, n |-> 1]))

RECURSIVE fifoMerge(_, _)
fifoMerge(q, items) ==
    IF items = <<>> THEN q
    ELSE fifoMerge(fifoInsert(q, toLowerCase(Head(items).original)), Tail(items))

\* Promise.all of the batch: the loop of processPage goes on after the last
\* call of the batch has settled
callSettled(S, p) ==
    IF AllSettled(p.calls) THEN runBatches(S, nextBatch(p, p.calls))
    ELSE [S |-> S, alive |-> TRUE, p |-> p]

\* processSegment has returned { count, error } for the call k of the batch
segmentSettled(p, k, done) ==
    callSettled(done.S, [p EXCEPT !.calls = [p.calls EXCEPT ![k] = Settled(done.count, done.error)]])

\* what translateText would do if it were called again with the same text
\* right after it has returned, on the cache it has left: again is the way
\* it goes on; hit tells that an item of the answer is one of the text's
\* words, is in the cache and matches the level there
secondCall(level, cache, allWords, items, second) ==
    [again |-> second.kind,
     hit |-> \E i \in 1..Len(items) :
                /\ toLowerCase(items[i].original) \in Range(Map(allWords, toLowerCase))
                /\ cacheHas(cache, toLowerCase(items[i].original))
                /\ isDifficultyCompatible(
                       OrB1(cacheGet(cache, toLowerCase(items[i].original)).difficulty),
                       level)]

\* translateText returns value after the provider's answer
providerReturned(S, p, k, seg, value, items) ==
    segmentSettled(p, k,
        processSegmentDone(
            withResolved(S, seg, value, "provider",
                [intensity |-> p.calls[k].intensity, startLevel |-> p.calls[k].level,
                 cached |-> p.calls[k].cached]
                    @@ secondCall(S.config.difficultyLevel, S.cache, p.calls[k].allWords, items,
                                  lookUpWords(seg.filteredText, S.config, S.cache,
                                              p.calls[k].allWords))),
            p, seg, value))

\* the provider's answer has come: the items go into the cache, the cache is
\* saved, and translateText filters and merges
providerAnswered(S, p, k, seg, items) ==
    providerReturned([S EXCEPT !.cache = cacheMerge(S.cache, items)], p, k, seg,
                     translateTextResult(seg.filteredText, S.config.difficultyLevel,
                                         p.calls[k].cached, p.calls[k].max, items),
                     items)

\* the call k of the pass p settles with reply
afterReply(S, p, k, reply) ==
    IF reply.kind = "items"
    THEN providerAnswered(S, p, k, p.segments[p.i + k], reply.items)
    ELSE segmentSettled(p, k,
             [S |-> withResolved(S, p.segments[p.i + k], <<>>, "rejected",
                                 [intensity |-> p.calls[k].intensity, cause |-> reply.cause]),
              count |-> 0, error |-> TRUE])

\* the pass pi is suspended again, or has returned
resumed(run, pi) ==
    [run.S EXCEPT !.passes = IF run.alive THEN [run.S.passes EXCEPT ![pi] = run.p]
                             ELSE Pick(run.S.passes, (1..Len(run.S.passes)) \ {pi})]

ProviderStep(S, reply) ==
    /\ Commit(S)
    /\ History(S, FALSE, FALSE, FALSE)
    /\ answers' = ~answers
    /\ nBad' = IF reply.items = <<>> THEN nBad + 1 ELSE nBad
    /\ persisted' = IF reply.kind = "items" THEN S.cache ELSE persisted
    /\ fifo' = IF reply.kind = "items" THEN fifoMerge(fifo, reply.items) ELSE fifo

\* a provider call settles: the rest of translateText, of processSegment and,
\* after the last call of the batch, of the loop of processPage
ProviderSettles(pi, k, reply) ==
    /\ pi \in 1..Len(passes)
    /\ k \in 1..Len(passes[pi].calls)
    /\ passes[pi].calls[k].state = "pending"
    /\ reply.items = <<>> => nBad < MaxBadResponses
    /\ ProviderStep(resumed(afterReply(Cur, passes[pi], k, reply), pi), reply)
    /\ UNCHANGED << config, stor, changes, learnedWords, scrollTimer, startupTimer, nEvents >>

SomeProviderSettles ==
    \E pi \in 1..Len(passes) :
        \E k \in 1..Len(passes[pi].calls), reply \in { fetched(response) : response \in ProviderReplies } :
            ProviderSettles(pi, k, reply)

Next ==
    \/ Reload
    \/ MsgProcessPage
    \/ MsgRestorePage
    \/ Scroll
    \/ \E view \in { 1..2 } : ScrollTimerFires(view)
    \/ StartupTimerFires
    \/ \E enabled \in BOOLEAN : ChangeSetting("enabled", enabled, ~enabled)
    \/ \E level \in {"B1", "C1"} : ChangeSetting("difficultyLevel", level, FALSE)
    \/ ChangeSetting("intensity", "low", FALSE)
    \/ StorageChanged
    \/ \E c \in Containers : \E i \in 1..Len(dom[c].nodes) : ContextMenuLearned(c, i)
    \/ SomeProviderSettles

Spec == Init /\ [][Next]_vars

\* a provider call is in flight: SomeProviderSettles can take a step
CallPending ==
    \E pi \in 1..Len(passes) : \E k \in 1..Len(passes[pi].calls) :
        passes[pi].calls[k].state = "pending"

\* the steps of SomeProviderSettles, told by the variable they alone change
Settles == CallPending /\ answers' = ~answers

\* every provider call settles, with an answer or an error: weak fairness of
\* the steps of SomeProviderSettles
LiveSpec == Spec /\ WF_answers(Settles)


(***************************************************************************)
(* ProcessingService: the class of lines 14-232, a program of its own.     *)
(* service is the object after init(): config read from storage, the       *)
(* scroll listener and the observer set up, each with the closure of its   *)
(* debounce call.  timeout[t] counts the pending timers of the closure t,  *)
(* hasNewContent is what the mutation records of the pending call hold;    *)
(* burst, nTriggers and destroyed are history.  The pass itself runs in    *)
(* modules that are not part of the source and is kept as its busy flag.   *)
(***************************************************************************)
\* the variables of the content script
scriptVars == << config, stor, changes, learnedWords, isProcessing, processedFingerprints,
                 wordCache, persisted, dom, passes, scrollTimer, startupTimer, lastResult,
                 resolved, applied, restores, nEvents, nBad, answers, fifo, earned, marked,
                 passClean, history, restoredInFlight >>

\* a mutant of debounce: the pending timer is not cleared
debounce_notCleared(pending) == pending + 1

\* the function debounce returns, called: clearTimeout(timeout); timeout =
\* setTimeout(...), on the number of pending timers of the closure
debounce(pending) == (IF pending > 0 THEN pending - 1 ELSE 0) + 1

\* a scroll event reaches the listener, or the observer delivers mutation
\* records (with or without an added element of more than 50 characters)
SvcTrigger(trigger, newContent) ==
    /\ service.listening[trigger]
    /\ service.nTriggers < MaxTriggers
    /\ service' = [service EXCEPT !.timeout[trigger] = debounce(@),
                                  !.hasNewContent = IF trigger = "mutation" THEN newContent ELSE @,
                                  !.burst[trigger] = @ + 1,
                                  !.nTriggers = @ + 1]
    /\ UNCHANGED << scriptVars, apply >>

\* processViewport -> processPage({ viewportOnly: true }) up to its first await
processViewport(svc) == [svc EXCEPT !.isProcessing = TRUE]

\* a timer of a debounce closure fires: func.apply(this, args)
SvcTimerFires(trigger) ==
    /\ service.timeout[trigger] > 0
    /\ service' = [(IF /\ autoProcessOn(service.config)
                       /\ trigger = "mutation" => service.hasNewContent
                    THEN processViewport(service) ELSE service)
                      EXCEPT !.timeout[trigger] = @ - 1, !.burst[trigger] = 0]
    /\ UNCHANGED << scriptVars, apply >>

\* processPage returns: finally { this.isProcessing = false }
SvcPassEnds ==
    /\ service.isProcessing
    /\ service' = [service EXCEPT !.isProcessing = FALSE]
    /\ UNCHANGED << scriptVars, apply >>

\* updateConfig(newConfig)
SvcUpdateConfig(newConfig) ==
    /\ service.config # newConfig
    /\ service' = [service EXCEPT !.config = newConfig]
    /\ UNCHANGED << scriptVars, apply >>

\* destroy(): the observer is disconnected, the scroll listener removed,
\* restorePage() called
SvcDestroy ==
    /\ ~service.destroyed
    /\ service' = [service EXCEPT !.listening = [trigger \in Triggers |-> FALSE],
                                  !.destroyed = TRUE]
    /\ UNCHANGED << scriptVars, apply >>

ServiceNext ==
    \/ \E trigger \in Triggers, newContent \in BOOLEAN : SvcTrigger(trigger, newContent)
    \/ \E trigger \in Triggers : SvcTimerFires(trigger)
    \/ SvcPassEnds
    \/ \E autoProcess, enabled \in BOOLEAN :
          SvcUpdateConfig([autoProcess |-> autoProcess, enabled |-> enabled])
    \/ SvcDestroy

ServiceSpec == Init /\ [][ServiceNext]_vars

(***************************************************************************)
(* applyReplacements on its own, with range operations that throw.  The    *)
(* element is a container of the page as loaded, or as restoreAll leaves   *)
(* it after one replacement (three text leaves); the candidates are a run  *)
(* of up to three of the provider's items with the positions translateText *)
(* gives them; a range operation throws for one candidate in one leaf,     *)
(* and possibly in the leaf after it as well.                              *)
(***************************************************************************)
ApplyCall(d, replacements, throws) ==
    /\ apply' = [element |-> d, replacements |-> replacements, throws |-> throws,
                 result |-> applyReplacementsWhere(d, replacements, throws)]
    /\ UNCHANGED << scriptVars, service >>

ApplyNext ==
    /\ apply.replacements = <<>>
    /\ \E c \in Containers, reply \in ProviderReplies :
        \E a \in 1..Len(reply.items) : \E b \in a..Min(a + 2, Len(reply.items)) :
            \E first \in { <<>> } \cup { <<reply.items[i]>> : i \in a..b } :
                \E f \in [leaf : 1..2, at : {"setEnd", "insertNode"},
                           original : { reply.items[i].original : i \in a..b }],
                   next \in {"none", "setEnd", "insertNode"} :
                    ApplyCall(restoreAllDom([InitialDom EXCEPT ![c] =
                                  applyReplacements(InitialDom[c], first).dom])[c],
                              correctedResults(ContainerText(c), SubSeq(reply.items, a, b)),
                              {f} \cup (IF next = "none" THEN {}
                                         ELSE {[f EXCEPT !.leaf = @ + 1, !.at = next]}))

ApplySpec == Init /\ [][ApplyNext]_vars

(***************************************************************************)
(* Properties                                                              *)
(***************************************************************************)
\* the provider calls in flight, over every pass
RECURSIVE inFlight(_)
inFlight(ps) ==
    IF ps = <<>> THEN 0
    ELSE Len(SelectSeq(Head(ps).calls, LAMBDA call : call.state = "pending"))
            + inFlight(Tail(ps))

\* C1: at most one pass is in Processing at any time, whatever the triggers
\* do: the passes suspended on the provider are never more than one, and
\* while one is suspended the busy flag is set.
C1_MutualExclusion == Len(passes) <= 1 /\ (passes # <<>> => isProcessing)

\* a full-page trigger came while a pass was in flight, and was turned away
C1_Witness == Len(passes) = 1 /\ lastResult.kind = "skipped" /\ lastResult.full

\* C2: a processPage call made while a pass is in flight returns Skipped and
\* changes nothing: the flag stays set, the pass in flight, the cache and its
\* stored copy stay as they are, and so do the document and the fingerprints
\* (but for the restoreAll that the settings handler runs before its call).
C2_SkippedChangesNothing ==
    [][ /\ (isProcessing /\ answers' = answers /\ nEvents' = nEvents
               /\ lastResult'.kind # "none")
            => lastResult'.kind = "skipped"
        /\ lastResult'.kind = "skipped"
            => /\ isProcessing /\ isProcessing'
               /\ passes' = passes
               /\ wordCache' = wordCache
               /\ persisted' = persisted
               /\ IF changes' = changes
                  THEN dom' = dom /\ processedFingerprints' = processedFingerprints
                  ELSE dom' = restoreAllDom(dom) /\ processedFingerprints' = {} ]_vars

\* the scroll trigger was turned away while a pass with a call in flight had
\* already replaced a word
C2_Witness ==
    /\ lastResult.kind = "skipped" /\ ~lastResult.full
    /\ inFlight(passes) > 0
    /\ \E c \in Containers : \E i \in 1..Len(dom[c].nodes) : dom[c].nodes[i].type = "span"

\* C3: every pass that enters Processing returns to Idle with the flag
\* cleared, whether its calls succeed, fail or the pass throws, provided every
\* provider call settles; and a call made in Idle is never Skipped.
C3_PassReturnsToIdle ==
    /\ isProcessing ~> ~isProcessing
    /\ [][~isProcessing => lastResult'.kind # "skipped"]_vars

\* a pass has returned in which a provider call had failed
C3_Witness == ~isProcessing /\ lastResult.kind = "done" /\ lastResult.errors > 0 /\ answers

\* C4, as the claim states it: every fingerprint in processedFingerprints is
\* of a segment in which a replacement was applied since the last restoreAll.
C4_FingerprintOnlyAfterReplacement == processedFingerprints \subseteq earned

\* C5: the word cache never holds more than CACHE_MAX_SIZE entries.
C5_CacheBound == cacheSize(wordCache) <= CACHE_MAX_SIZE

\* a merge into the full cache has pushed the oldest key out
C5_Witness ==
    /\ cacheSize(wordCache) = CACHE_MAX_SIZE
    /\ ~cacheHas(wordCache, W_wandered)
    /\ cacheHas(wordCache, W_traveler)

C7_IndexNotBelowLevel ==
    \A i \in 1..Len(resolved) : \A j \in 1..Len(resolved[i].value) :
        CefrIndex(resolved[i].value[j].difficulty) >= CefrIndex(resolved[i].level)

\* C7, amended: every candidate translateText returns has a CEFR index not
\* below the index of the configured level, a candidate without a difficulty
\* counting as B1.
C7_IndexNotBelowLevelOrB1 ==
    \A i \in 1..Len(resolved) : \A j \in 1..Len(resolved[i].value) :
        CefrIndex(OrB1(resolved[i].value[j].difficulty)) >= CefrIndex(resolved[i].level)

\* translateText returned, after the provider's answer, a candidate that has
\* no difficulty
C7_Witness ==
    \E i \in 1..Len(resolved) :
        /\ resolved[i].path = "provider"
        /\ \E j \in 1..Len(resolved[i].value) : resolved[i].value[j].difficulty = ""

\* C8, as the claim states it: no word that is in the whitelist when a
\* replacement is applied is the original of that replacement.
C8_NoWhitelistedOriginal ==
    \A i \in 1..Len(applied) :
        applied[i].originals \cap Range(whitelistWordsOf(learnedWords)) = {}

\* C9: at most MAX_CONCURRENT provider calls are in flight at any time.
C9_ConcurrencyBound == inFlight(passes) <= MAX_CONCURRENT

\* a batch of MAX_CONCURRENT calls is in flight and a segment is left over
C9_Witness ==
    /\ inFlight(passes) = MAX_CONCURRENT
    /\ \E pi \in 1..Len(passes) : Len(passes[pi].segments) > MAX_CONCURRENT

\* C10, as the claim states it: of two full passes in a row on a document
\* that only the passes change, the second applies no replacement.
C10_SecondRunAppliesNothing == Len(history) = 2 => history[2] = 0

\* C10, amended: no replacement is applied in a segment for which translateText
\* has returned candidates since the document was last restored (the settings
\* handler restores the document in the step in which it starts its pass).
C10_NoReplacementWhereResolved ==
    [][ changes' = changes
            => \A i \in 1..Len(applied') :
                   applied'[i].count > 0 => applied'[i].element \notin marked ]_vars

\* the second of two full passes in a row has ended without a replacement,
\* every segment of the page being one for which candidates had come
C10_Witness ==
    /\ Len(history) = 2 /\ history[2] = 0
    /\ marked = { c \in Containers : Len(ContainerText(c)) >= 50 }

\* C11, as the claim states it: whenever restoreAll has returned, the text
\* content of every container is its text before any processing, character
\* for character, and processedFingerprints is empty.
C11_RestoreGivesBackText ==
    \A i \in 1..Len(restores) :
        /\ restores[i].fingerprints = {}
        /\ \A c \in Containers :
               Flatten(Map(restores[i].dom[c].nodes, LAMBDA n : n.data)) = ContainerText(c)

\* C12, as the claim states it: a replaced word is never part of a longer
\* word.  The wrapper stands between the text before it and the text after
\* it: neither the character before nor the character after is a word
\* character.
C12_NeverInsideWord ==
    \A c \in Containers : \A i \in 1..Len(dom[c].nodes) :
        dom[c].nodes[i].type = "span"
            => /\ \/ i = 1
                  \/ dom[c].nodes[i - 1].type # "text"
                  \/ dom[c].nodes[i - 1].data = <<>>
                  \/ ~IsWordChar(dom[c].nodes[i - 1].data[Len(dom[c].nodes[i - 1].data)])
               /\ \/ i = Len(dom[c].nodes)
                  \/ dom[c].nodes[i + 1].type # "text"
                  \/ dom[c].nodes[i + 1].data = <<>>
                  \/ ~IsWordChar(dom[c].nodes[i + 1].data[1])

\* C13: the candidates that one translateText call returns are never more
\* than the cap of the intensity the call began with: 4 for low, 8 for
\* medium, 14 for high, 8 for any other value, whether they come from the
\* cache or from the merged answer of the provider.
C13_IntensityCap ==
    \A i \in 1..Len(resolved) :
        Len(resolved[i].value) <= (CASE resolved[i].intensity = "low" -> 4
                                     [] resolved[i].intensity = "medium" -> 8
                                     [] resolved[i].intensity = "high" -> 14
                                     [] OTHER -> 8)

\* C13 witness: at intensity low and level B1 the provider's answer, five of
\* whose items match the level, comes back as four candidates.
C13_Witness ==
    \E i \in 1..Len(resolved) :
        /\ resolved[i].path = "provider"
        /\ resolved[i].intensity = "low"
        /\ resolved[i].level = "B1"
        /\ Len(resolved[i].value) = 4

\* C14, as the claim states it: once translateText has called the provider
\* for a text and has cached the items it received, a second call with the
\* same text and the same config returns from the cache and calls no provider.
C14_SecondCallFromCache ==
    \A i \in 1..Len(resolved) :
        resolved[i].path = "provider" => resolved[i].again = "return"

\* C14, amended: the second call returns from the cache when an item of the
\* answer is one of the text's words, is still in the cache after the merge
\* and has there a difficulty that matches the user's level.
C14_SecondCallFromCacheOnHit ==
    \A i \in 1..Len(resolved) :
        (resolved[i].path = "provider" /\ resolved[i].hit) => resolved[i].again = "return"

\* C14 witness: the provider was called, an item of its answer is a cached
\* word of the text at the user's level, and the second call returns.
C14_Witness ==
    \E i \in 1..Len(resolved) :
        /\ resolved[i].path = "provider"
        /\ resolved[i].hit
        /\ resolved[i].again = "return"

\* C15: translateText calls the provider only when no cached word of the
\* text matches the level, a word of the text is not cached and the reduced
\* text has 50 characters or more; in every other case it returns what the
\* cache gives and calls no provider.  Every call in flight began in the
\* first case, every return from the cache in another.
C15_ProviderOnlyWhenDue ==
    /\ \A pi \in 1..Len(passes) : \A k \in 1..Len(passes[pi].calls) :
           passes[pi].calls[k].state = "pending" => passes[pi].calls[k].due
    /\ \A i \in 1..Len(resolved) : resolved[i].path = "cache" => ~resolved[i].due

\* C15 witness: in one batch a segment is resolved from the cache and the
\* provider is called for another.
C15_Witness ==
    /\ \E i \in 1..Len(resolved) : resolved[i].path = "cache"
    /\ \E pi \in 1..Len(passes) : \E k \in 1..Len(passes[pi].calls) :
           passes[pi].calls[k].state = "pending"

\* C16: a translateText call that throws is counted as one error of the
\* pass, and the pass goes on.  In every step the errors of the running pass
\* (those of its finished batches and of the settled calls of its batch)
\* grow by the number of translateText calls that threw in the step, and so
\* do the segments whose translateText has ended, by the number of calls
\* that ended; the summary of a pass that ends holds the errors counted so,
\* and a pass ends when translateText has ended for every segment.
C16_ErrorCountedOnce ==
    [][LET errorsOf(ps) ==
               IF ps = <<>> THEN 0
               ELSE ps[1].errors + Len(SelectSeq(ps[1].calls, LAMBDA call : call.error))
           endedOf(ps) ==
               IF ps = <<>> THEN 0
               ELSE Min(ps[1].i, Len(ps[1].segments))
                       + Len(SelectSeq(ps[1].calls, LAMBDA call : call.state = "settled"))
           threw == Len(SelectSeq(resolved', LAMBDA r : r.path = "rejected"))
       IN  /\ passes' # <<>> =>
                /\ errorsOf(passes') = errorsOf(passes) + threw
                /\ endedOf(passes') = endedOf(passes) + Len(resolved')
           /\ (lastResult'.kind = "done" /\ resolved' # <<>>) =>
                /\ lastResult'.errors = errorsOf(passes) + threw
                /\ passes # <<>> =>
                       Len(passes[1].segments) = endedOf(passes) + Len(resolved')]_vars

\* C16 witness: the provider's error ends the first batch of a pass with one
\* error counted, and the pass has gone on to call the provider for a
\* segment of the next batch.
C16_Witness ==
    /\ \E i \in 1..Len(resolved) :
           resolved[i].path = "rejected" /\ resolved[i].cause = "provider"
    /\ passes # <<>>
    /\ passes[1].i = MAX_CONCURRENT
    /\ passes[1].errors = 1
    /\ \E k \in 1..Len(passes[1].calls) : passes[1].calls[k].state = "pending"

\* C17, as the claim states it: when translateText throws because the
\* provider is not configured, the processPage call rejects with the error
\* and translateText ends for no further segment of the pass.
C17_ConfigErrorAborts ==
    \A i \in 1..Len(resolved) :
        (resolved[i].path = "rejected" /\ resolved[i].cause = "config")
            => /\ i = Len(resolved)
               /\ lastResult.kind = "threw"

\* C18, as the claim states it: whatever the content of the provider's
\* response, translateText does not throw because of the parsing, and no
\* segment is counted as an error for it.
C18_ParsingNeverRaises ==
    \A i \in 1..Len(resolved) :
        resolved[i].path = "rejected" => resolved[i].cause # "parse"

\* C19, as the claim states it: whenever the storage.onChanged handler runs
\* for a change of difficultyLevel or intensity and the feature is enabled,
\* restoreAll is run and the processPage call for the whole page that
\* follows begins a pass, whatever the state, a pass in flight included.
C19_SettingChangeReprocesses ==
    [][(/\ changes # <<>>
        /\ changes' = Tail(changes)
        /\ nEvents' = nEvents
        /\ Head(changes).key \in {"difficultyLevel", "intensity"}
        /\ stor.enabled)
          => /\ restores' # <<>>
             /\ lastResult'.full
             /\ lastResult'.kind \in {"pending", "done", "threw"}]_vars

\* C20: right after restoreAll has returned, in whatever state it was
\* called, the document holds no wrapper, no container has the processed
\* marker, and processedFingerprints is empty.
C20_RestoreAllUndoesAll ==
    \A i \in 1..Len(restores) :
        /\ restores[i].fingerprints = {}
        /\ \A c \in Containers :
               /\ ~restores[i].dom[c].processed
               /\ \A n \in 1..Len(restores[i].dom[c].nodes) :
                      restores[i].dom[c].nodes[n].type # "span"

\* C20 witness: restoreAll has run while a pass was in flight, on a document
\* in which that pass had put a wrapper (the leaves it was put between are
\* still apart), the restore being the only event of the user so far.
C20_Witness ==
    /\ restores # <<>>
    /\ nEvents = 1
    /\ passes # <<>>
    /\ \E c \in Containers : Len(restores[1].dom[c].nodes) > 1

\* C21: within one applyReplacements call the candidates are taken in
\* non-increasing order of position, and so are the replacements made: a
\* candidate with a higher position is replaced before one with a lower.
C21_DescendingPosition ==
    \A i \in 1..Len(applied) :
        /\ \A j \in 1..(Len(applied[i].tried) - 1) :
               applied[i].tried[j] >= applied[i].tried[j + 1]
        /\ \A j \in 1..(Len(applied[i].positions) - 1) :
               applied[i].positions[j] >= applied[i].positions[j + 1]

\* C21 witness: translateText returned the candidates with the lowest
\* position first, and applyReplacements replaced three words, the one
\* with the highest position first and the first one returned last.
C21_Witness ==
    \E i \in 1..Len(applied) : \E j \in 1..Len(resolved) :
        /\ resolved[j].element = applied[i].element
        /\ Len(applied[i].positions) >= 3
        /\ applied[i].positions[1] > applied[i].positions[2]
        /\ resolved[j].value[1].position = applied[i].positions[Len(applied[i].positions)]
        /\ resolved[j].value[1].position < applied[i].positions[1]

\* C22: the batches of a pass run one after another.  In a step of a pass
\* in flight, translateText ends or applyReplacements runs for a segment of
\* a later batch only when the step settles the last call of the batch that
\* was waiting; in the step that begins a pass, translateText ends for a
\* segment only after it has ended for every segment of the batches before.
C22_BatchesInTurn ==
    [][LET batchNo(segs, e) ==
               ((CHOOSE j \in 1..Len(segs) : segs[j].element = e) - 1) \div MAX_CONCURRENT
           waiting == Len(SelectSeq(passes[1].calls, LAMBDA call : call.state = "pending"))
       IN  /\ passes # <<>> =>
                /\ \A j \in 1..Len(resolved') :
                       batchNo(passes[1].segments, resolved'[j].element)
                              > passes[1].i \div MAX_CONCURRENT
                          => waiting = 1
                /\ \A j \in 1..Len(applied') :
                       batchNo(passes[1].segments, applied'[j].element)
                              > passes[1].i \div MAX_CONCURRENT
                          => waiting = 1
           /\ (passes = <<>> /\ passes' # <<>>) =>
                \A j \in 1..Len(resolved') : \A k \in 1..Len(passes'[1].segments) :
                    (k - 1) \div MAX_CONCURRENT
                           < batchNo(passes'[1].segments, resolved'[j].element)
                       => \E m \in 1..(j - 1) :
                              resolved'[m].element = passes'[1].segments[k].element]_vars

\* C22 witness: the step in which the provider's answer settles the last
\* call of a batch goes on to the next batch, resolves its segment from the
\* cache and ends the pass.
C22_Witness ==
    /\ lastResult.kind = "done"
    /\ \E j \in 1..Len(resolved) : \E m \in (j + 1)..Len(resolved) :
           /\ resolved[j].path = "provider"
           /\ resolved[m].path = "cache"
           /\ resolved[m].element > resolved[j].element

\* C23: each debounced trigger has at most one pending timer; an event
\* while a timer is pending replaces it, so the events since the last
\* invocation, however many, have exactly one timer pending, and none is
\* pending once it has fired.
C23_OnePendingTimer ==
    \A trigger \in Triggers :
        service.timeout[trigger] = IF service.burst[trigger] > 0 THEN 1 ELSE 0

\* C23 witness: three scroll events in a row have left one timer pending.
C23_Witness ==
    /\ service.burst["scroll"] = 3
    /\ service.timeout["scroll"] = 1

C28_NoPassAfterDestroy ==
    [][service.destroyed => (service'.isProcessing => service.isProcessing)]_vars

\* C29: after the contextmenu handler has run on a replaced word, the
\* whitelist holds an entry with that word as its original, whatever the
\* whitelist held before.
C29_LearnedWordWhitelisted ==
    [][\A c \in Containers : \A i \in 1..Len(dom[c].nodes) :
           ContextMenuLearned(c, i) =>
               \E j \in 1..Len(learnedWords') :
                   learnedWords'[j].original = dom[c].nodes[i].original]_vars

\* C25: an error thrown by a range operation on one leaf for one candidate
\* is caught in applyReplacements: every candidate is still taken by the
\* outer loop, every replacement made is in the container when the call
\* returns, and the count returned is the number of wrappers put in.
C25_ErrorCaughtInApply ==
    /\ Len(apply.result.tried) = Len(apply.replacements)
    /\ \A i \in 1..Len(apply.result.done) :
           \E n \in 1..Len(apply.result.dom.nodes) :
               /\ apply.result.dom.nodes[n].type = "span"
               /\ apply.result.dom.nodes[n].original = apply.result.done[i].original
    /\ apply.result.count
           = Cardinality({ n \in 1..Len(apply.result.dom.nodes) :
                             apply.result.dom.nodes[n].type = "span" })
    /\ apply.result.dom.processed = (apply.result.count > 0)

\* C25 witness: of three candidates the second one the loop takes threw
\* and was caught, and the one before it and the one after it are both
\* replaced.
C25_Witness ==
    /\ Len(apply.replacements) = 3
    /\ apply.result.caught = 1
    /\ \E f \in apply.throws : f.original = sortByPositionDesc(apply.replacements)[2].original
    /\ apply.result.count = 2
    /\ \A i \in {1, 3} :
           \E j \in 1..2 : apply.result.done[j].original
                               = sortByPositionDesc(apply.replacements)[i].original

\* C26, as the claim states it: what translateText returns after it has
\* called the provider holds no candidate from the cache.
C26_ProviderResultNotFromCache ==
    \A i \in 1..Len(resolved) :
        resolved[i].path = "provider" =>
            \A j \in 1..Len(resolved[i].value) : ~resolved[i].value[j].fromCache

\* C26, amended: what translateText returns after it has called the
\* provider holds no candidate from the cache when the difficulty level is
\* the same at the return as it was when the call began.
C26_NotFromCacheAtSameLevel ==
    \A i \in 1..Len(resolved) :
        (resolved[i].path = "provider" /\ resolved[i].startLevel = resolved[i].level) =>
            \A j \in 1..Len(resolved[i].value) : ~resolved[i].value[j].fromCache

\* C26 witness: the provider was called for a text that has a cached word,
\* the level is the one of the call's start, and candidates are returned.
C26_Witness ==
    \E i \in 1..Len(resolved) :
        /\ resolved[i].path = "provider"
        /\ resolved[i].startLevel = resolved[i].level
        /\ resolved[i].cached # <<>>
        /\ resolved[i].value # <<>>

\* C27: when restoreAll has run while a pass was in flight and no pass has
\* begun since, then, once that pass has ended, the document holds no
\* wrapper, no container carries the processed marker and
\* processedFingerprints is empty.
C27_RestoreInFlightLasts ==
    (restoredInFlight /\ passes = <<>>) =>
        /\ \A c \in Containers :
               /\ ~dom[c].processed
               /\ \A n \in 1..Len(dom[c].nodes) : dom[c].nodes[n].type # "span"
        /\ processedFingerprints = {}

=============================================================================
